---------------------------- MODULE Spec2Model ----------------------------
(***************************************************************************)
(* Model of the attitude package: the composition algebra                  *)
(* (operations/composition.py), the Quaternion value type (quaternions.py) *)
(* and the QUEST solver (determination/quest.py).                          *)
(*                                                                         *)
(* Numbers.  A jnp scalar is modelled by an exact extended rational        *)
(* <<n, d>> in lowest terms with d >= 0:                                   *)
(*     d > 0          the finite value n/d                                 *)
(*     <<1, 0>>       +inf        <<-1, 0>>   -inf                         *)
(*     <<0, 0>>       nan                                                  *)
(* so that a division by zero yields what IEEE arithmetic yields (an       *)
(* infinity or a nan, no exception) and the non-finite values propagate    *)
(* through later arithmetic and comparisons as they do in the program.     *)
(* Rounding of finite results is not modelled: finite arithmetic is exact. *)
(* The sign of a zero is not modelled: x/0 takes the sign of x.            *)
(***************************************************************************)
EXTENDS Integers, Sequences, FiniteSets

-----------------------------------------------------------------------------
(* Evaluation.  The(S) is the element of the singleton S.  An operator      *)
(* written The({ body : x \in {a} }) is body with x = a, with the argument a *)
(* evaluated once, however often body uses x.                               *)

The(S) == CHOOSE r \in S : TRUE

-----------------------------------------------------------------------------
(* Integer helpers *)

IAbs(i) == IF i < 0 THEN -i ELSE i

ISgn(i) == IF i < 0 THEN -1 ELSE IF i = 0 THEN 0 ELSE 1

RECURSIVE GCD(_, _)
GCD(a, b) ==
    The({ IF n = 0 THEN m ELSE GCD(n, m % n) : m \in {a}, n \in {b} })

-----------------------------------------------------------------------------
(* Extended rationals *)

NaN == <<0, 0>>

PosInf == <<1, 0>>

NegInf == <<-1, 0>>

Zero == <<0, 1>>

One == <<1, 1>>

Two == <<2, 1>>

FInt(i) == <<i, 1>>

\* n/d in lowest terms, d > 0; n/0 is an infinity of n's sign, 0/0 is nan.
Frac(n, d) ==
    The({ IF m = 0 THEN <<ISgn(k), 0>>
          ELSE The({ <<(ISgn(m) * k) \div g, (ISgn(m) * m) \div g>> :
                     g \in {GCD(IAbs(k), IAbs(m))} }) :
          k \in {n}, m \in {d} })

IsNaN(x) == x = NaN

IsInf(x) == The({ v[2] = 0 /\ v[1] # 0 : v \in {x} })

IsFinite(x) == x[2] > 0

FNeg(x) == The({ <<-v[1], v[2]>> : v \in {x} })

FAbs(x) == The({ <<IAbs(v[1]), v[2]>> : v \in {x} })

FAdd(x, y) ==
    The({ IF IsNaN(u) \/ IsNaN(v) THEN NaN
          ELSE IF IsInf(u) THEN (IF IsInf(v) /\ v # u THEN NaN ELSE u)
          ELSE IF IsInf(v) THEN v
          ELSE The({ Frac(u[1] * (v[2] \div g) + v[1] * (u[2] \div g),
                          (u[2] \div g) * v[2]) : g \in {GCD(u[2], v[2])} }) :
          u \in {x}, v \in {y} })

FSub(x, y) == FAdd(x, FNeg(y))

FMul(x, y) ==
    The({ IF IsNaN(u) \/ IsNaN(v) THEN NaN
          ELSE IF IsInf(u) \/ IsInf(v)
               THEN <<ISgn(u[1]) * ISgn(v[1]), 0>>
          ELSE IF u[1] = 0 \/ v[1] = 0 THEN Zero
          ELSE The({ <<(u[1] \div g1) * (v[1] \div g2),
                       (u[2] \div g2) * (v[2] \div g1)>> :
                     g1 \in {GCD(IAbs(u[1]), v[2])},
                     g2 \in {GCD(IAbs(v[1]), u[2])} }) :
          u \in {x}, v \in {y} })

\* 1/y: 1/0 = +inf, 1/inf = 0, 1/nan = nan.
FInv(y) ==
    The({ IF v[2] = 0 THEN (IF v[1] = 0 THEN NaN ELSE Zero)
          ELSE IF v[1] = 0 THEN PosInf
          ELSE <<ISgn(v[1]) * v[2], IAbs(v[1])>> :
          v \in {y} })

\* x / y: finite/0 is an infinity (nan for 0/0), inf/inf is nan.
FDiv(x, y) ==
    The({ IF IsInf(u) /\ IsInf(v) THEN NaN ELSE FMul(u, FInv(v)) :
          u \in {x}, v \in {y} })

\* a/b < c/d for b, d > 0, by the continued-fraction expansion (no products).
RECURSIVE FracLt(_, _, _, _)
FracLt(a, b, c, d) ==
    The({ IF n1 \div d1 # n2 \div d2 THEN n1 \div d1 < n2 \div d2
          ELSE IF n2 % d2 = 0 THEN FALSE
          ELSE IF n1 % d1 = 0 THEN TRUE
          ELSE FracLt(d2, n2 % d2, d1, n1 % d1) :
          n1 \in {a}, d1 \in {b}, n2 \in {c}, d2 \in {d} })

\* x < y; every comparison with a nan is false.
FLt(x, y) ==
    The({ IF IsNaN(u) \/ IsNaN(v) THEN FALSE
          ELSE IF u = v THEN FALSE
          ELSE IF u = NegInf \/ v = PosInf THEN TRUE
          ELSE IF u = PosInf \/ v = NegInf THEN FALSE
          ELSE FracLt(u[1], u[2], v[1], v[2]) :
          u \in {x}, v \in {y} })

FGt(x, y) == FLt(y, x)

FLe(x, y) ==
    The({ (~IsNaN(u)) /\ (~IsNaN(v)) /\ (u = v \/ FLt(u, v)) :
          u \in {x}, v \in {y} })

-----------------------------------------------------------------------------
(* Vectors and matrices: tuples of extended rationals, tuples of rows *)

\* The array with the n <= 4 entries f[1] .. f[n], every entry computed.
Array(f, n) ==
    IF n = 1 THEN <<f[1]>>
    ELSE IF n = 2 THEN <<f[1], f[2]>>
    ELSE IF n = 3 THEN <<f[1], f[2], f[3]>>
    ELSE <<f[1], f[2], f[3], f[4]>>

Dot(u, v) ==
    The({ LET RECURSIVE S(_)
              S(i) == IF i = 0 THEN Zero ELSE FAdd(S(i - 1), FMul(a[i], b[i]))
          IN  S(Len(a)) : a \in {u}, b \in {v} })

Cross(u, v) ==
    The({ << FSub(FMul(a[2], b[3]), FMul(a[3], b[2])),
             FSub(FMul(a[3], b[1]), FMul(a[1], b[3])),
             FSub(FMul(a[1], b[2]), FMul(a[2], b[1])) >> : a \in {u}, b \in {v} })

VAdd(u, v) ==
    The({ Array([i \in 1..Len(a) |-> FAdd(a[i], b[i])], Len(a)) :
          a \in {u}, b \in {v} })

VSub(u, v) ==
    The({ Array([i \in 1..Len(a) |-> FSub(a[i], b[i])], Len(a)) :
          a \in {u}, b \in {v} })

VNeg(u) == The({ Array([i \in 1..Len(a) |-> FNeg(a[i])], Len(a)) : a \in {u} })

VScale(c, u) ==
    The({ Array([i \in 1..Len(a) |-> FMul(k, a[i])], Len(a)) :
          k \in {c}, a \in {u} })

VDiv(u, c) ==
    The({ Array([i \in 1..Len(a) |-> FDiv(a[i], k)], Len(a)) :
          a \in {u}, k \in {c} })

MatVec(m, v) ==
    The({ Array([i \in 1..Len(a) |-> Dot(a[i], b)], Len(a)) :
          a \in {m}, b \in {v} })

VFinite(u) == \A i \in 1..Len(u) : IsFinite(u[i])

-----------------------------------------------------------------------------
(* Bounds of the model *)

\* Components of the operand vectors of the composition algebra are the
\* integers -MaxC .. MaxC.
MaxC == 1

-----------------------------------------------------------------------------
(* operations/composition.py *)

\* compose_quat with one sign of the product matrix wrong.
compose_quat_sign_slip(b_p, b_pp) ==
    The({ MatVec(<< <<b[1], FNeg(b[2]), FNeg(b[3]), FNeg(b[4])>>,
                    <<b[2], b[1], b[4], FNeg(b[3])>>,
                    <<b[3], FNeg(b[4]), b[1], b[2]>>,
                    <<b[4], b[3], b[2], b[1]>> >>, a) :
          a \in {b_p}, b \in {b_pp} })

compose_quat(b_p, b_pp) ==
    The({ MatVec(<< <<b[1], FNeg(b[2]), FNeg(b[3]), FNeg(b[4])>>,
                    <<b[2], b[1], b[4], FNeg(b[3])>>,
                    <<b[3], FNeg(b[4]), b[1], b[2]>>,
                    <<b[4], b[3], FNeg(b[2]), b[1]>> >>, a) :
          a \in {b_p}, b \in {b_pp} })

compose_crp(q_p, q_pp) ==
    The({ VDiv(num, denom) :
          num \in {VSub(VAdd(q_pp, q_p), Cross(q_pp, q_p))},
          denom \in {FSub(One, Dot(q_p, q_pp))} })

relative_crp(q, q_p) == compose_crp(VNeg(q_p), q)

\* shadow_s without the change of sign.
shadow_s_unsigned(s) == The({ VDiv(v, Dot(v, v)) : v \in {s} })

shadow_s(s) == The({ VDiv(VNeg(v), Dot(v, v)) : v \in {s} })

\* The default of the parameter tol of compose_mrp and relative_mrp: 1e-2.
DefaultTol == <<1, 100>>

\* jnp.where(c, x, y) selects x where c holds and y elsewhere; a comparison
\* with a nan does not hold.
compose_mrp(s_p, s_pp, tol) ==
    The({ The({ IF FLt(test_denom, tol)
                THEN VDiv(
                       VSub(VAdd(VScale(FSub(One, dot_pp), a),
                                 VScale(FSub(One, dot_p), b)),
                            VScale(Two, Cross(b, a))),
                       FSub(FAdd(One, FMul(dot_p, dot_pp)),
                            FMul(Two, Dot(a, b))))
                ELSE IF FGt(dot_p, dot_pp)
                THEN The({ VDiv(
                             VSub(VAdd(VScale(FSub(One, dot_pp), sh),
                                       VScale(FSub(One, FDiv(One, dot_p)), b)),
                                  VScale(Two, Cross(b, sh))),
                             FSub(FAdd(One, FDiv(dot_pp, dot_p)),
                                  FMul(Two, Dot(sh, b)))) :
                           sh \in {shadow_s(a)} })
                ELSE The({ VDiv(
                             VSub(VAdd(VScale(FSub(One, FDiv(One, dot_pp)), a),
                                       VScale(FSub(One, dot_p), sh)),
                                  VScale(Two, Cross(sh, a))),
                             FSub(FAdd(One, FDiv(dot_p, dot_pp)),
                                  FMul(Two, Dot(a, sh)))) :
                           sh \in {shadow_s(b)} }) :
                dot_p \in {Dot(a, a)}, dot_pp \in {Dot(b, b)},
                test_denom \in {FSub(FAdd(One, FMul(Dot(a, a), Dot(b, b))),
                                     FMul(Two, Dot(a, b)))} }) :
          a \in {s_p}, b \in {s_pp} })

relative_mrp(s, s_p, tol) == compose_mrp(VNeg(s_p), s, tol)


-----------------------------------------------------------------------------
(* quaternions.py *)

\* Numerators of the components (over the denominator 5) of the vectors
\* handed to the Quaternion constructor.
MaxQ == 5

\* The tolerance of the unit-length assertion: 1e-7.
NormTol == <<1, 10000000>>

\* The integer square root, for perfect squares.
ISqrt(n) == CHOOSE r \in 0..n : r * r = n

IsSquare(n) == \E r \in 0..n : r * r = n

\* The vectors whose Euclidean length is rational: those with at most one
\* nonzero component, and those whose squared length is a rational square.
NonZeroCount(b) == Cardinality({i \in 1..Len(b) : b[i] # Zero})

HasRationalNorm(b) ==
    \/ NonZeroCount(b) <= 1
    \/ IsSquare(Dot(b, b)[1]) /\ IsSquare(Dot(b, b)[2])

\* jnp.linalg.norm(b), the Euclidean length, on vectors of rational length.
norm(b) ==
    IF NonZeroCount(b) = 0 THEN Zero
    ELSE IF NonZeroCount(b) = 1
         THEN FAbs(b[CHOOSE i \in 1..Len(b) : b[i] # Zero])
    ELSE <<ISqrt(Dot(b, b)[1]), ISqrt(Dot(b, b)[2])>>

\* The condition asserted by Quaternion.__init__.
unit_length(b) == FLt(FAbs(FSub(norm(b), One)), NormTol)

Sq(x) == The({ FMul(v, v) : v \in {x} })

build_quanterion(b) ==
    LET b0 == b[1]
        b1 == b[2]
        b2 == b[3]
        b3 == b[4]
    IN  << << FSub(FSub(FAdd(Sq(b0), Sq(b1)), Sq(b2)), Sq(b3)),
              FMul(Two, FAdd(FMul(b1, b2), FMul(b0, b3))),
              FMul(Two, FSub(FMul(b1, b3), FMul(b0, b2))) >>,
           << FMul(Two, FSub(FMul(b1, b2), FMul(b0, b3))),
              FSub(FAdd(FSub(Sq(b0), Sq(b1)), Sq(b2)), Sq(b3)),
              FMul(Two, FAdd(FMul(b2, b3), FMul(b0, b1))) >>,
           << FMul(Two, FAdd(FMul(b1, b3), FMul(b0, b2))),
              FMul(Two, FSub(FMul(b2, b3), FMul(b0, b1))),
              FAdd(FSub(FSub(Sq(b0), Sq(b1)), Sq(b2)), Sq(b3)) >> >>

-----------------------------------------------------------------------------
(* determination/quest.py *)

\* Each weight is one of 0 .. MaxW.
MaxW == 1

\* The precisions e are 0 and 1/k for k in 1 .. MaxEpsDen.
MaxEpsDen == 2

\* The model follows a run of the Newton-Raphson loop while the numerator and
\* the denominator of the iterate are within these bounds.
MaxIterNum == 60

MaxIterDen == 8

Minor(M, i, j) ==
    The({ Array([r \in 1..(Len(A) - 1) |->
                   Array([c \in 1..(Len(A) - 1) |->
                            A[IF r < i THEN r ELSE r + 1]
                             [IF c < j THEN c ELSE c + 1]], Len(A) - 1)],
                Len(A) - 1) : A \in {M} })

\* jnp.linalg.det, by cofactor expansion along the first row.
RECURSIVE Det(_)
Det(M) ==
    The({ IF Len(A) = 1 THEN A[1][1]
          ELSE LET RECURSIVE S(_)
                   S(j) ==
                     IF j = 0 THEN Zero
                     ELSE The({ FAdd(S(j - 1), IF j % 2 = 1 THEN t ELSE FNeg(t)) :
                                t \in {FMul(A[1][j], Det(Minor(A, 1, j)))} })
               IN  S(Len(A)) : A \in {M} })

\* x * jnp.eye(n)
XEye(x, n) ==
    The({ Array([i \in 1..n |->
                   Array([j \in 1..n |-> FMul(v, IF i = j THEN One ELSE Zero)], n)],
                n) : v \in {x} })

MSub(A, C) ==
    The({ Array([i \in 1..Len(a) |-> VSub(a[i], c[i])], Len(a)) :
          a \in {A}, c \in {C} })

MAdd(A, C) ==
    The({ Array([i \in 1..Len(a) |-> VAdd(a[i], c[i])], Len(a)) :
          a \in {A}, c \in {C} })

Transpose(A) ==
    The({ Array([i \in 1..Len(a[1]) |->
                   Array([j \in 1..Len(a) |-> a[j][i]], Len(a))], Len(a[1])) :
          a \in {A} })

K_eig_eq(x, K) == Det(MSub(K, XEye(x, Len(K))))

\* grad(K_eig_eq): the derivative in x of det(K - x I), the sum over the rows
\* i of the determinant of K - x I with row i replaced by its derivative.
grad_K_eig_eq(x, K) ==
    The({ LET n == Len(M)
              dRow(i) == Array([j \in 1..n |-> IF i = j THEN FNeg(One) ELSE Zero], n)
              Repl(i) == Array([r \in 1..n |-> IF r = i THEN dRow(i) ELSE M[r]], n)
              RECURSIVE S(_)
              S(i) == IF i = 0 THEN Zero ELSE FAdd(S(i - 1), Det(Repl(i)))
          IN  IF \A r \in 1..n : VFinite(M[r]) THEN S(n) ELSE NaN :
          M \in {MSub(K, XEye(x, Len(K)))} })

\* jnp.sum(w)
Sum(w) ==
    LET RECURSIVE S(_)
        S(i) == IF i = 0 THEN Zero ELSE FAdd(S(i - 1), w[i])
    IN  S(Len(w))

\* The loop state of get_lam is the pair <<x[0], x[1]>>: the iterate and the
\* one before it.
lam0(w) == <<Sum(w), FAdd(Sum(w), One)>>

body_func(x, K) ==
    The({ << FSub(x0, FDiv(K_eig_eq(x0, K), grad_K_eig_eq(x0, K))), x0 >> :
          x0 \in {x[1]} })

\* cond_func going on while the last two iterates differ by e or more.
cond_func_inclusive(x, e) == FLe(e, FAbs(FSub(x[1], x[2])))

cond_func(x, e) == FGt(FAbs(FSub(x[1], x[2])), e)

\* MiscUtil.antisym_dcm_vector(B)
antisym_dcm_vector(B) ==
    << FSub(B[2][3], B[3][2]), FSub(B[3][1], B[1][3]), FSub(B[1][2], B[2][1]) >>

Trace(B) == FAdd(FAdd(B[1][1], B[2][2]), B[3][3])

\* S, sigma, Z and K of get_q, from B.
S_of(B) == MAdd(B, Transpose(B))

sigma_of(B) == Trace(B)

Z_of(B) == antisym_dcm_vector(B)

K_of(B) ==
    The({ << <<sigma, Z[1], Z[2], Z[3]>>,
             <<Z[1], L[1][1], L[1][2], L[1][3]>>,
             <<Z[2], L[2][1], L[2][2], L[2][3]>>,
             <<Z[3], L[3][1], L[3][2], L[3][3]>> >> :
          sigma \in {sigma_of(B)}, Z \in {Z_of(B)},
          L \in {MSub(S_of(B), XEye(sigma_of(B), 3))} })

\* jnp.linalg.inv of a 3x3 matrix: the adjugate over the determinant.  The
\* inverse of a singular matrix has non-finite entries (no exception).
Inv3(M) ==
    The({ LET cof(i, j) == The({ IF (i + j) % 2 = 0 THEN t ELSE FNeg(t) :
                                 t \in {Det(Minor(A, i, j))} })
          IN  Array([i \in 1..3 |->
                       Array([j \in 1..3 |-> FDiv(cof(j, i), d)], 3)], 3) :
          A \in {M}, d \in {Det(M)} })

\* The value get_q returns, given B and the eigenvalue get_lam returned.
q_of(B, lam) ==
    MatVec(Inv3(MSub(XEye(FAdd(lam, sigma_of(B)), 3), S_of(B))), Z_of(B))

\* A call that raised.
Raised(exc) == [kind |-> "error", error |-> exc]

\* The last statement of get_b, jnp.array(1., q[0], q[1], q[2]) / jnp.sqrt(1. + q2):
\* jnp.array takes one array-like object, then dtype, copy and order.  It is
\* handed q[0] as dtype and q[2] as order, and raises before any division:
\* NotImplementedError where it rejects the order first, TypeError where it
\* rejects the dtype first.  These are the outcomes of the call.
get_b_of(q) == {Raised("TypeError"), Raised("NotImplementedError")}

-----------------------------------------------------------------------------
(* State.  The three parts of the package share no state; each has its own  *)
(* specification below, under which the variables of the other two rest.    *)

VARIABLES
    \* composition algebra
    cargs,   \* the operands: <<s>> or <<a, b>> (3-vectors), <<a, b, c>> (4-vectors)
    cop,     \* the operation applied to them, "none" before
    cret,    \* what it returned
    \* Quaternion
    qarg,    \* the argument b of the constructor call
    qobj,    \* the Quaternion object: NoObj, or its fields b and dcm
    qerr,    \* the exception the constructor raised, "none" if none
    qop,     \* the method called last on the object, "none" before any call
    qret,    \* what that method returned
    \* QUEST
    api,     \* the function called: "get_lam", "get_q" or "get_b"
    w,       \* the weights
    B,       \* get_q, get_b: the attitude profile matrix get_B returns for the
             \* observations
    K,       \* the argument K of get_lam
    e,       \* the precision
    pc,      \* "call", "loop" (in get_lam's while_loop), "lam" (get_lam has
             \* returned), "q" (get_q has returned), "done", "out_of_range"
    x,       \* the loop state of get_lam
    stepped, \* whether body_func has run in this call
    q,       \* the CRP vector get_q returned
    result   \* what the call returned or raised

composeVars == <<cargs, cop, cret>>

quaternionVars == <<qarg, qobj, qerr, qop, qret>>

questVars == <<api, w, B, K, e, pc, x, stepped, q, result>>

vars == <<composeVars, quaternionVars, questVars>>

-----------------------------------------------------------------------------
(* The composition algebra as a state machine: the operands are drawn, then *)
(* one operation (or one chain of operations) is applied to them.           *)

Ints == {FInt(k) : k \in -MaxC..MaxC}

\* Two vectors next to the unit vector <<1, 0, 0>>, for denominators of
\* compose_mrp between 0 and tol.
NearUnit == {<<Frac(19, 20), Zero, Zero>>, <<Frac(21, 20), Zero, Zero>>}

\* CRP / MRP operands: the integer cube and the two vectors of NearUnit.
Vec3 == {<<c1, c2, c3>> : c1 \in Ints, c2 \in Ints, c3 \in Ints} \cup NearUnit

\* Second operands of the binary operations: the cube of the vectors with
\* components -1, 0 and 1, and the two vectors of NearUnit.
UnitCube ==
    {<<FInt(c1), FInt(c2), FInt(c3)>> : c1 \in -1..1, c2 \in -1..1, c3 \in -1..1}
      \cup NearUnit

\* Quaternion operands: four basis vectors and three vectors with several
\* nonzero components, and their integer multiples.
QuatBase ==
    { <<One, Zero, Zero, Zero>>, <<Zero, One, Zero, Zero>>,
      <<Zero, Zero, One, Zero>>, <<Zero, Zero, Zero, One>>,
      <<One, One, One, One>>, <<One, FNeg(One), Zero, One>>,
      <<Zero, One, Two, FNeg(One)>> }

Quat4 == {VScale(c, u) : c \in Ints, u \in QuatBase}

NoRet == [kind |-> "none"]

\* A call that returned normally.  None of the functions of composition.py
\* raises: jnp divisions by zero produce inf / nan components.
Returned(v) == [kind |-> "value", val |-> v]

ComposeIdle == cargs = <<>> /\ cop = "none" /\ cret = NoRet

InitCompose ==
    /\ cargs \in {<<s>> : s \in Vec3} \cup (Vec3 \X UnitCube)
                  \cup (Quat4 \X Quat4 \X QuatBase)
    /\ cop = "none"
    /\ cret = NoRet

Apply(name, value) ==
    /\ cop = "none"
    /\ cop' = name
    /\ cret' = Returned(value)
    /\ UNCHANGED <<cargs, quaternionVars, questVars>>

Apply_compose_quat ==
    /\ Len(cargs) = 3
    /\ Apply("compose_quat", compose_quat(cargs[1], cargs[2]))

\* compose_quat applied twice, in the two groupings of three operands.
Apply_compose_quat_chain ==
    /\ Len(cargs) = 3
    /\ Apply("compose_quat_chain",
             [left |-> compose_quat(compose_quat(cargs[1], cargs[2]), cargs[3]),
              right |-> compose_quat(cargs[1], compose_quat(cargs[2], cargs[3]))])

Apply_compose_crp ==
    /\ Len(cargs) = 2
    /\ Apply("compose_crp", compose_crp(cargs[1], cargs[2]))

Apply_relative_crp ==
    /\ Len(cargs) = 2
    /\ Apply("relative_crp", relative_crp(cargs[1], cargs[2]))

Apply_compose_mrp ==
    /\ Len(cargs) = 2
    /\ Apply("compose_mrp", compose_mrp(cargs[1], cargs[2], DefaultTol))

Apply_relative_mrp ==
    /\ Len(cargs) = 2
    /\ Apply("relative_mrp", relative_mrp(cargs[1], cargs[2], DefaultTol))

Apply_shadow_s ==
    /\ Len(cargs) = 1
    /\ Apply("shadow_s", shadow_s(cargs[1]))

\* shadow_s applied to its own result.
Apply_shadow_s_chain ==
    /\ Len(cargs) = 1
    /\ Apply("shadow_s_chain",
             [once |-> shadow_s(cargs[1]),
              twice |-> shadow_s(shadow_s(cargs[1]))])

\* compose_crp(a, relative_crp(b, a)) for the operands <<a, b>>.
Apply_roundtrip_crp ==
    /\ Len(cargs) = 2
    /\ Apply("roundtrip_crp",
             [rel |-> relative_crp(cargs[2], cargs[1]),
              back |-> compose_crp(cargs[1], relative_crp(cargs[2], cargs[1]))])

\* compose_mrp(a, relative_mrp(b, a)) for the operands <<a, b>>.
Apply_roundtrip_mrp ==
    /\ Len(cargs) = 2
    /\ Apply("roundtrip_mrp",
             [rel |-> relative_mrp(cargs[2], cargs[1], DefaultTol),
              back |-> compose_mrp(cargs[1],
                                   relative_mrp(cargs[2], cargs[1], DefaultTol),
                                   DefaultTol)])

NextCompose ==
    \/ Apply_compose_quat
    \/ Apply_compose_quat_chain
    \/ Apply_compose_crp
    \/ Apply_relative_crp
    \/ Apply_compose_mrp
    \/ Apply_relative_mrp
    \/ Apply_shadow_s
    \/ Apply_shadow_s_chain
    \/ Apply_roundtrip_crp
    \/ Apply_roundtrip_mrp


-----------------------------------------------------------------------------
(* The Quaternion value type as a state machine *)

NoObj == [b |-> <<>>, dcm |-> <<>>]

QuatComponents == {Frac(k, 5) : k \in -MaxQ..MaxQ}

\* Constructor arguments: a grid of vectors of rational length, and vectors
\* whose length differs from 1 by one or two tolerances exactly.
QuatInputs ==
    {b \in QuatComponents \X QuatComponents \X QuatComponents \X QuatComponents :
        HasRationalNorm(b)}
      \cup {<<Frac(10000000 + j, 10000000), Zero, Zero, Zero>> : j \in {-2, -1, 1, 2}}

QuaternionIdle ==
    /\ qarg = <<>>
    /\ qobj = NoObj
    /\ qerr = "none"
    /\ qop = "none"
    /\ qret = NoRet

InitQuaternion ==
    /\ qarg \in QuatInputs
    /\ qobj = NoObj
    /\ qerr = "none"
    /\ qop = "none"
    /\ qret = NoRet

\* Quaternion.__init__ with self.b assigned before the assertion.
Quaternion_init_assigning_first ==
    /\ qobj = NoObj
    /\ qerr = "none"
    /\ IF unit_length(qarg)
       THEN /\ qobj' = [b |-> qarg, dcm |-> build_quanterion(qarg)]
            /\ UNCHANGED qerr
       ELSE /\ qerr' = "AssertionError"
            /\ qobj' = [b |-> qarg, dcm |-> <<>>]
    /\ UNCHANGED <<qarg, qop, qret, composeVars, questVars>>

\* Quaternion.__init__: the assertion, then the two assignments.  A failed
\* assertion raises before any field is assigned.
Quaternion_init ==
    /\ qobj = NoObj
    /\ qerr = "none"
    /\ IF unit_length(qarg)
       THEN /\ qobj' = [b |-> qarg, dcm |-> build_quanterion(qarg)]
            /\ UNCHANGED qerr
       ELSE /\ qerr' = "AssertionError"
            /\ UNCHANGED qobj
    /\ UNCHANGED <<qarg, qop, qret, composeVars, questVars>>

\* theta = 2 arccos(b[0]) and e = b[1:] / sin(theta).  The angle is kept as
\* the argument of the arccos; sin(theta) = 2 b0 sqrt(1 - b0^2) has the sign of
\* b0 and the square 4 b0^2 (1 - b0^2), and the division by it is kept unevaluated.
get_PVR_from_b ==
    /\ qobj # NoObj
    /\ qop' = "get_PVR_from_b"
    /\ qret' = Returned(
         [theta |-> [two_arccos_of |-> qobj.b[1]],
          e |-> [numerator |-> <<qobj.b[2], qobj.b[3], qobj.b[4]>>,
                 sin_theta |->
                   [sign |-> ISgn(qobj.b[1][1]),
                    square |-> FMul(FMul(FInt(4), Sq(qobj.b[1])),
                                    FSub(One, Sq(qobj.b[1])))]]])
    /\ UNCHANGED <<qarg, qobj, qerr, composeVars, questVars>>

get_q_from_b ==
    /\ qobj # NoObj
    /\ qop' = "get_q_from_b"
    /\ qret' = Returned(<< FDiv(qobj.b[2], qobj.b[1]),
                           FDiv(qobj.b[3], qobj.b[1]),
                           FDiv(qobj.b[4], qobj.b[1]) >>)
    /\ UNCHANGED <<qarg, qobj, qerr, composeVars, questVars>>

\* get_s_from_b rescaling b in place before the division.
get_s_from_b_in_place ==
    /\ qobj # NoObj
    /\ qop' = "get_s_from_b"
    /\ qobj' = [qobj EXCEPT !.b = VDiv(qobj.b, FAdd(One, qobj.b[1]))]
    /\ qret' = Returned(<<qobj'.b[2], qobj'.b[3], qobj'.b[4]>>)
    /\ UNCHANGED <<qarg, qerr, composeVars, questVars>>

get_s_from_b ==
    /\ qobj # NoObj
    /\ qop' = "get_s_from_b"
    /\ qret' = Returned(<< FDiv(qobj.b[2], FAdd(One, qobj.b[1])),
                           FDiv(qobj.b[3], FAdd(One, qobj.b[1])),
                           FDiv(qobj.b[4], FAdd(One, qobj.b[1])) >>)
    /\ UNCHANGED <<qarg, qobj, qerr, composeVars, questVars>>

NextQuaternion ==
    \/ Quaternion_init
    \/ get_PVR_from_b
    \/ get_q_from_b
    \/ get_s_from_b


-----------------------------------------------------------------------------
(* The QUEST solver as a state machine *)

Rat(M) == [i \in 1..Len(M) |-> [j \in 1..Len(M[i]) |-> Frac(M[i][j][1], M[i][j][2])]]

\* Attitude profile matrices: three orthonormal observations of the identity
\* attitude and of a quarter turn about the third axis, one and two
\* observations, and none.
BSet ==
    { Rat(<< <<<<1, 1>>, <<0, 1>>, <<0, 1>>>>,
             <<<<0, 1>>, <<1, 1>>, <<0, 1>>>>,
             <<<<0, 1>>, <<0, 1>>, <<1, 1>>>> >>),
      Rat(<< <<<<0, 1>>, <<1, 1>>, <<0, 1>>>>,
             <<<<-1, 1>>, <<0, 1>>, <<0, 1>>>>,
             <<<<0, 1>>, <<0, 1>>, <<1, 1>>>> >>),
      Rat(<< <<<<1, 1>>, <<0, 1>>, <<0, 1>>>>,
             <<<<0, 1>>, <<0, 1>>, <<0, 1>>>>,
             <<<<0, 1>>, <<0, 1>>, <<0, 1>>>> >>),
      Rat(<< <<<<1, 1>>, <<0, 1>>, <<0, 1>>>>,
             <<<<0, 1>>, <<1, 1>>, <<0, 1>>>>,
             <<<<0, 1>>, <<0, 1>>, <<0, 1>>>> >>),
      Rat(<< <<<<0, 1>>, <<0, 1>>, <<0, 1>>>>,
             <<<<0, 1>>, <<0, 1>>, <<0, 1>>>>,
             <<<<0, 1>>, <<0, 1>>, <<0, 1>>>> >>) }

\* Matrices handed to get_lam directly: the K of each attitude profile
\* matrix, and the 3 x 3 matrix with det(K - x I) = -(x^3 - 2 x + 2).
KSet ==
    {K_of(b) : b \in BSet}
      \cup { << <<Zero, Zero, FInt(-2)>>,
                <<One, Zero, Two>>,
                <<Zero, One, Zero>> >> }

WSet == [1..2 -> {FInt(k) : k \in 0..MaxW}]

EpsSet == {Zero} \cup {Frac(1, k) : k \in 1..MaxEpsDen}

NoVec == <<>>

QuestIdle ==
    /\ api = "none"
    /\ w = <<>>
    /\ B = <<>>
    /\ K = <<>>
    /\ e = Zero
    /\ pc = "idle"
    /\ x = <<>>
    /\ stepped = FALSE
    /\ q = NoVec
    /\ result = NoRet

InitQuest ==
    /\ api \in {"get_lam", "get_q", "get_b"}
    /\ w \in WSet
    /\ IF api = "get_lam"
       THEN B = <<>> /\ K \in KSet
       ELSE B \in BSet /\ K = <<>>
    /\ e \in EpsSet
    /\ pc = "call"
    /\ x = <<>>
    /\ stepped = FALSE
    /\ q = NoVec
    /\ result = NoRet

InRange(v) == IsFinite(v) => (IAbs(v[1]) <= MaxIterNum /\ v[2] <= MaxIterDen)

\* The call reaches get_lam (get_q and get_b after building K from B), which
\* sets up the loop state.
get_lam_enter ==
    /\ pc = "call"
    /\ pc' = "loop"
    /\ K' = IF api = "get_lam" THEN K ELSE K_of(B)
    /\ x' = lam0(w)
    /\ UNCHANGED <<api, w, B, e, stepped, q, result, composeVars, quaternionVars>>

\* One iteration of the while_loop.
get_lam_iterate ==
    /\ pc = "loop"
    /\ cond_func(x, e)
    /\ InRange(x[1])
    /\ x' = body_func(x, K)
    /\ stepped' = TRUE
    /\ UNCHANGED <<api, w, B, K, e, pc, q, result, composeVars, quaternionVars>>

\* The loop goes on, with an iterate beyond the bounds of the model.
get_lam_leave_range ==
    /\ pc \in {"loop", "lam"}
    /\ pc = "loop" => cond_func(x, e)
    /\ ~InRange(x[1])
    /\ pc' = "out_of_range"
    /\ UNCHANGED <<api, w, B, K, e, x, stepped, q, result, composeVars, quaternionVars>>

\* The while_loop ends and get_lam returns x[0].
get_lam_return ==
    /\ pc = "loop"
    /\ ~cond_func(x, e)
    /\ IF api = "get_lam"
       THEN pc' = "done" /\ result' = Returned(x[1])
       ELSE pc' = "lam" /\ UNCHANGED result
    /\ UNCHANGED <<api, w, B, K, e, x, stepped, q, composeVars, quaternionVars>>

get_q_return ==
    /\ pc = "lam"
    /\ InRange(x[1])
    /\ q' = q_of(B, x[1])
    /\ IF api = "get_q"
       THEN pc' = "done" /\ result' = Returned(q')
       ELSE pc' = "q" /\ UNCHANGED result
    /\ UNCHANGED <<api, w, B, K, e, x, stepped, composeVars, quaternionVars>>

get_b_return ==
    /\ pc = "q"
    /\ pc' = "done"
    /\ result' \in get_b_of(q)
    /\ UNCHANGED <<api, w, B, K, e, x, stepped, q, composeVars, quaternionVars>>

NextQuest ==
    \/ get_lam_enter
    \/ get_lam_iterate
    \/ get_lam_leave_range
    \/ get_lam_return
    \/ get_q_return
    \/ get_b_return

-----------------------------------------------------------------------------
(* Specifications *)

\* The composition algebra.
Init == InitCompose /\ QuaternionIdle /\ QuestIdle

Next == NextCompose

Spec == Init /\ [][Next]_vars

\* The Quaternion value type.
InitQuaternionSpec == InitQuaternion /\ ComposeIdle /\ QuestIdle

SpecQuaternion == InitQuaternionSpec /\ [][NextQuaternion]_vars

\* The QUEST solver.
InitQuestSpec == InitQuest /\ ComposeIdle /\ QuaternionIdle

SpecQuest == InitQuestSpec /\ [][NextQuest]_vars

\* The QUEST solver, running: a call in progress takes its next step.
FairSpecQuest == SpecQuest /\ WF_vars(NextQuest)

-----------------------------------------------------------------------------
(* The documented behaviour of the composition algebra, written out from    *)
(* the formulas the claims state.                                           *)

ZeroVec == <<Zero, Zero, Zero>>

\* D = 1 + |a|^2 |b|^2 - 2 a.b
MrpDenominator(a, b) ==
    FSub(FAdd(One, FMul(Dot(a, a), Dot(b, b))), FMul(Two, Dot(a, b)))

\* ((1 - |b|^2) a + (1 - |a|^2) b - 2 b x a) / D
MrpClosedForm(a, b) ==
    VScale(FInv(MrpDenominator(a, b)),
           VSub(VAdd(VScale(FSub(One, Dot(b, b)), a),
                     VScale(FSub(One, Dot(a, a)), b)),
                VScale(Two, Cross(b, a))))

\* -s / (s.s)
ShadowSet(s) == VScale(FNeg(FInv(Dot(s, s))), s)

\* The closed form, with the operand of larger squared norm replaced by its
\* shadow set when D is below tol.
MrpWithShadowSwitch(a, b, tol) ==
    IF FLt(MrpDenominator(a, b), tol)
    THEN IF FGt(Dot(a, a), Dot(b, b))
         THEN MrpClosedForm(ShadowSet(a), b)
         ELSE MrpClosedForm(a, ShadowSet(b))
    ELSE MrpClosedForm(a, b)

\* 1 - a.b, the denominator of compose_crp(a, b)
CrpDenominator(a, b) == FSub(One, Dot(a, b))

\* compose_mrp(a, b) is away from its singularity: D is not below tol, where
\* the closed form applies with no shadow set and divides by D alone.
MrpRegular(a, b, tol) ==
    /\ VFinite(a) /\ VFinite(b)
    /\ FLe(tol, MrpDenominator(a, b))

CrpRegular(a, b) ==
    /\ VFinite(a) /\ VFinite(b)
    /\ CrpDenominator(a, b) # Zero

\* The quaternion product of first and second, component by component.
QuatProduct(a, b) ==
    << FSub(FSub(FSub(FMul(b[1], a[1]), FMul(b[2], a[2])), FMul(b[3], a[3])),
            FMul(b[4], a[4])),
       FSub(FAdd(FAdd(FMul(b[2], a[1]), FMul(b[1], a[2])), FMul(b[4], a[3])),
            FMul(b[3], a[4])),
       FAdd(FAdd(FSub(FMul(b[3], a[1]), FMul(b[4], a[2])), FMul(b[1], a[3])),
            FMul(b[2], a[4])),
       FAdd(FSub(FAdd(FMul(b[4], a[1]), FMul(b[3], a[2])), FMul(b[2], a[3])),
            FMul(b[1], a[4])) >>

-----------------------------------------------------------------------------
(* Claims about operations/composition.py, under Spec *)

\* C1: compose_mrp(s_p, s_pp, tol) returns the plain closed form when
\* D >= tol, and when D < tol the closed form with the operand of larger
\* squared norm replaced by its shadow set.
C1_ShadowSwitchBelowTol ==
    cop = "compose_mrp" =>
      cret = Returned(MrpWithShadowSwitch(cargs[1], cargs[2], DefaultTol))

\* C5: compose_crp and relative_crp on operands whose denominator is 0, and
\* shadow_s on the zero vector, raise SingularRepresentation and return no
\* vector.
C5_SingularityIsReported ==
    /\ (cop = "compose_crp" /\ CrpDenominator(cargs[1], cargs[2]) = Zero)
         => cret = Raised("SingularRepresentation")
    /\ (cop = "relative_crp" /\ CrpDenominator(VNeg(cargs[2]), cargs[1]) = Zero)
         => cret = Raised("SingularRepresentation")
    /\ (cop = "shadow_s" /\ cargs[1] = ZeroVec)
         => cret = Raised("SingularRepresentation")

\* C6: away from the singularities (no denominator zero; for the MRP, D not
\* below tol in either composition), compose_crp(a, relative_crp(b, a)) = b
\* and compose_mrp(a, relative_mrp(b, a)) = b.
C6_RelativeThenComposeRecovers ==
    /\ ( /\ cop = "roundtrip_crp"
         /\ CrpRegular(VNeg(cargs[1]), cargs[2])
         /\ CrpRegular(cargs[1], cret.val.rel) )
         => cret.val.back = cargs[2]
    /\ ( /\ cop = "roundtrip_mrp"
         /\ MrpRegular(VNeg(cargs[1]), cargs[2], DefaultTol)
         /\ MrpRegular(cargs[1], MrpClosedForm(VNeg(cargs[1]), cargs[2]),
                       DefaultTol) )
         => cret.val.back = cargs[2]

\* C7: compose_quat(first, second) is the quaternion product matrix of second
\* applied to first, and the two groupings of a composition of three
\* 4-vectors return the same vector.
C7_ComposeQuatAssociative ==
    /\ cop = "compose_quat" => cret.val = QuatProduct(cargs[1], cargs[2])
    /\ cop = "compose_quat_chain" => cret.val.left = cret.val.right

\* Three operands that do not commute have been composed in both groupings.
C7_Witness ==
    /\ cop = "compose_quat_chain"
    /\ compose_quat(cargs[1], cargs[2]) # compose_quat(cargs[2], cargs[1])
    /\ compose_quat(cargs[2], cargs[3]) # compose_quat(cargs[3], cargs[2])
    /\ \A i \in 1..4 : cret.val.left[i] # Zero

\* C8: for s # 0, shadow_s(s) is the nonzero vector -s / (s.s), and shadow_s
\* of it is s again.
C8_ShadowInvolution ==
    (cop = "shadow_s_chain" /\ cargs[1] # ZeroVec) =>
      /\ cret.val.once # ZeroVec
      /\ VScale(Dot(cargs[1], cargs[1]), cret.val.once) = VNeg(cargs[1])
      /\ cret.val.twice = cargs[1]

\* shadow_s has been applied twice to a vector off the unit sphere, whose
\* shadow set differs from it and from its negation.
C8_Witness ==
    /\ cop = "shadow_s_chain"
    /\ cargs[1] # ZeroVec
    /\ Dot(cargs[1], cargs[1]) # One
    /\ cret.val.once # cargs[1]
    /\ cret.val.twice = cargs[1]

-----------------------------------------------------------------------------
(* Claims about quaternions.py, under SpecQuaternion *)

Delta(i, j) == IF i = j THEN One ELSE Zero

\* The sign of the permutation <<i, j, k>> of <<1, 2, 3>>, 0 if it is none.
LeviCivita(i, j, k) ==
    IF <<i, j, k>> \in {<<1, 2, 3>>, <<2, 3, 1>>, <<3, 1, 2>>} THEN One
    ELSE IF <<i, j, k>> \in {<<3, 2, 1>>, <<2, 1, 3>>, <<1, 3, 2>>} THEN FNeg(One)
    ELSE Zero

\* The direction cosine matrix of the quaternion b = (b0, v):
\* C[i][j] = (b0^2 - v.v) delta_ij + 2 v_i v_j + 2 b0 sum_k eps_ijk v_k.
StdDCM(b) ==
    LET b0 == b[1]
        v == <<b[2], b[3], b[4]>>
        Eps(i, j) ==
          FAdd(FAdd(FMul(LeviCivita(i, j, 1), v[1]), FMul(LeviCivita(i, j, 2), v[2])),
               FMul(LeviCivita(i, j, 3), v[3]))
    IN  [i \in 1..3 |-> [j \in 1..3 |->
          FAdd(FAdd(FMul(FSub(FMul(b0, b0), Dot(v, v)), Delta(i, j)),
                    FMul(Two, FMul(v[i], v[j]))),
               FMul(Two, FMul(b0, Eps(i, j))))]]

\* | ||b|| - 1 |
NormError(b) == FAbs(FSub(norm(b), One))

Constructed == qobj # NoObj

\* C4: once the constructor has run on b, if | ||b|| - 1 | >= 1e-7 it has
\* raised and there is no object; if | ||b|| - 1 | < 1e-7 it has not raised and
\* the object holds b and the direction cosine matrix of b.
C4_ConstructionValidates ==
    /\ (qerr # "none" \/ Constructed) =>
         /\ FLe(NormTol, NormError(qarg)) =>
              (qerr = "AssertionError" /\ qobj = NoObj)
         /\ FLt(NormError(qarg), NormTol) =>
              (qerr = "none" /\ qobj.b = qarg /\ qobj.dcm = StdDCM(qarg))
    /\ ~(qerr # "none" /\ Constructed)

\* The constructor has rejected a vector whose length misses 1 by exactly the
\* tolerance.
C4_Witness ==
    /\ qerr = "AssertionError"
    /\ qobj = NoObj
    /\ NormError(qarg) = NormTol

\* C9: no step changes the fields of a constructed Quaternion, and in every
\* state a constructed Quaternion has dcm equal to the direction cosine matrix
\* of b, and b of unit length within the tolerance.
C9_QuaternionImmutable ==
    /\ [][Constructed => qobj' = qobj]_vars
    /\ [](Constructed =>
            /\ qobj.dcm = StdDCM(qobj.b)
            /\ FLt(NormError(qobj.b), NormTol)
            /\ qobj.b = qarg)

\* get_s_from_b has returned on a Quaternion with four nonzero components.
C9_Witness ==
    /\ Constructed
    /\ qop = "get_s_from_b"
    /\ qret.kind = "value"
    /\ \A i \in 1..4 : qobj.b[i] # Zero

-----------------------------------------------------------------------------
(* Claims about determination/quest.py, under SpecQuest and FairSpecQuest *)

\* get_lam is in its while_loop.
InLoop == pc = "loop"

\* get_lam has returned x[0].
LamReturned == pc \in {"lam", "q", "done"}

\* | x_n - x_(n-1) | for the loop state <<x_n, x_(n-1)>>
LastChange == FAbs(FSub(x[1], x[2]))

\* x - f(x) / f'(x) for f(x) = det(A - x I)
NewtonStep(v, A) == FSub(v, FDiv(K_eig_eq(v, A), grad_K_eig_eq(v, A)))

\* C2: a call that enters the Newton-Raphson loop of get_lam leaves it, with
\* the eigenvalue or with a failure; it never iterates forever.
C2_LoopIsLeft == InLoop ~> ~InLoop

\* C3: when get_q has returned a CRP vector q, get_b returns, and what it
\* returns is b = (1, q[0], q[1], q[2]) / sqrt(1 + q.q): b[0] > 0, the vector
\* part is b[0] q, and b[0]^2 (1 + q.q) = 1.
C3_GetBReturnsQuaternion ==
    (api = "get_b" /\ pc = "done" /\ VFinite(q)) =>
      /\ result.kind = "value"
      /\ Len(result.val) = 4
      /\ FGt(result.val[1], Zero)
      /\ \A i \in 1..3 : result.val[i + 1] = FMul(result.val[1], q[i])
      /\ FMul(Sq(result.val[1]), FAdd(One, Dot(q, q))) = One

\* C10 (as the code has it): the first Newton step is taken from sum(w);
\* every step is taken from the iterate before it, and only while the last
\* two iterates differ by more than e; get_lam returns x_n at the first n
\* where they do not (the difference is at most e, or is not a number), and
\* not before one step when e < 1.
C10_IterationOrder ==
    /\ [][(InLoop /\ pc' = "loop") =>
            /\ FGt(LastChange, e)
            /\ ~stepped => x[1] = Sum(w)
            /\ x'[1] = NewtonStep(x[1], K)
            /\ x'[2] = x[1]
            /\ stepped']_vars
    /\ [][(InLoop /\ pc' \in {"lam", "done"}) =>
            /\ ~FGt(LastChange, e)
            /\ IsFinite(LastChange) => FLe(LastChange, e)
            /\ x' = x]_vars
    /\ [](LamReturned =>
            /\ ~FGt(LastChange, e)
            /\ FLt(e, One) => stepped)

\* get_lam has returned after a step that changed the iterate by exactly e.
C10_Witness ==
    /\ api = "get_lam"
    /\ pc = "done"
    /\ stepped
    /\ FLt(Zero, e)
    /\ LastChange = e
    /\ result = Returned(x[1])

\* C10 (as the claim has it): the value get_lam returns after a step
\* satisfies | x_n - x_(n-1) | < e.
C10_ReturnsBelowE ==
    (LamReturned /\ stepped /\ IsFinite(LastChange)) => FLt(LastChange, e)

=============================================================================
